---- MODULE Spec2Model ----
(***************************************************************************)
(* Model of the two debloat programs of the repository:                    *)
(*   "local" - src/debloater.py     (llama.cpp backend, chunked loop)      *)
(*   "api"   - src/debloater_api.py (remote backend, single request)       *)
(* A file on disk is a sequence of bytes and a text a sequence of          *)
(* characters.  Reading a file in text mode decodes UTF-8 and applies      *)
(* Python's universal-newline translation; writing encodes UTF-8 with the  *)
(* POSIX line separator.                                                   *)
(***************************************************************************)
EXTENDS Integers, Sequences, FiniteSets, TLC

VARIABLES
  prog,             \* which program runs: "local" or "api"
  pc,               \* position of the run inside main/process_file
  fs_target,        \* content of <file_path> on disk
  fs_bak,           \* <file_path>.bak on disk: [exists, data]
  chunk_size,       \* the window CHUNK_SIZE of debloater.py (scaled down)
  original_code,    \* text read at the start of the run
  original_loc,
  k,                \* 1-based position of the for loop in its range
  sent,             \* chunks handed to the backend so far: [offset, text]
  replies,          \* raw backend replies received so far
  processed_chunks,
  new_code,
  new_loc,
  reduction,        \* exact rational [num, den] of the reported percentage
  exit_code,        \* -1 while running, else the process exit code
  fail_stage,       \* stage that raised, "none" if nothing raised
  pre,              \* content of <file_path> when the run started
  bak0,             \* <file_path>.bak when the run started
  wrote,            \* the run has written to <file_path>
  runs,             \* number of runs started on this path
  arg,              \* input of the pure-function specifications
  res               \* their result

vars == <<prog, pc, fs_target, fs_bak, chunk_size, original_code,
          original_loc, k, sent, replies, processed_chunks, new_code,
          new_loc, reduction, exit_code, fail_stage, pre, bak0, wrote,
          runs, arg, res>>

----------------------------------------------------------------------------
(* Bounds *)
MaxLen == 3          \* longest file (in bytes) the first run is started on
MaxWindow == 4       \* largest scaled window
MaxRuns == 2         \* runs on the same path
MaxRerunLen == 2     \* longest file (in bytes) a later run is started on
MaxCode == 2         \* longest CODE piece of an extractor input
MaxLocLen == 5       \* longest text handed to the line counters

(* Program constant *)
CHUNK_SIZE == 4096

----------------------------------------------------------------------------
(* Bytes, characters and strings *)

\* A byte is a token: an ASCII byte is written as its character ("x", "\n";
\* BQ is the backtick, VT FS GS RS US are \x0b and \x1c-\x1f), a byte from
\* \x80 on as its two hexadecimal digits.  A character is the tuple of the
\* bytes of its UTF-8 encoding, a text is a sequence of characters, and a
\* file on disk is a sequence of bytes.
Ch(b) == <<b>>
Str(bytes) == [j \in 1..Len(bytes) |-> Ch(bytes[j])]

NL == Ch("\n")
CR == Ch("\r")
BQ == Ch("BQ")
NBSP == <<"C2", "A0">>
FENCE == <<BQ, BQ, BQ>>
PYTHON == Str(<<"p", "y", "t", "h", "o", "n">>)

\* characters str.strip() removes: every character str.isspace() holds of
Whitespace ==
  {<<"\t">>, <<"\n">>, <<"VT">>, <<"\f">>, <<"\r">>, <<"FS">>, <<"GS">>,
   <<"RS">>, <<"US">>, <<" ">>, <<"C2", "85">>, <<"C2", "A0">>, <<"E1",
   "9A", "80">>, <<"E2", "80", "80">>, <<"E2", "80", "81">>, <<"E2", "80",
   "82">>, <<"E2", "80", "83">>, <<"E2", "80", "84">>, <<"E2", "80",
   "85">>, <<"E2", "80", "86">>, <<"E2", "80", "87">>, <<"E2", "80",
   "88">>, <<"E2", "80", "89">>, <<"E2", "80", "8A">>, <<"E2", "80",
   "A8">>, <<"E2", "80", "A9">>, <<"E2", "80", "AF">>, <<"E2", "81",
   "9F">>, <<"E3", "80", "80">>}
\* the character set handed to lstrip: the letters of python and the newline
LstripChars == {Ch("p"), Ch("y"), Ch("t"), Ch("h"), Ch("o"), Ch("n"), NL}

\* the classes of the bytes from \x80 on in UTF-8
Cont80BF ==
  {"80", "81", "82", "83", "84", "85", "86", "87", "88", "89", "8A", "8B",
   "8C", "8D", "8E", "8F", "90", "91", "92", "93", "94", "95", "96", "97",
   "98", "99", "9A", "9B", "9C", "9D", "9E", "9F", "A0", "A1", "A2", "A3",
   "A4", "A5", "A6", "A7", "A8", "A9", "AA", "AB", "AC", "AD", "AE", "AF",
   "B0", "B1", "B2", "B3", "B4", "B5", "B6", "B7", "B8", "B9", "BA", "BB",
   "BC", "BD", "BE", "BF"}
Cont808F ==
  {"80", "81", "82", "83", "84", "85", "86", "87", "88", "89", "8A", "8B",
   "8C", "8D", "8E", "8F"}
Cont809F ==
  {"80", "81", "82", "83", "84", "85", "86", "87", "88", "89", "8A", "8B",
   "8C", "8D", "8E", "8F", "90", "91", "92", "93", "94", "95", "96", "97",
   "98", "99", "9A", "9B", "9C", "9D", "9E", "9F"}
Cont90BF ==
  {"90", "91", "92", "93", "94", "95", "96", "97", "98", "99", "9A", "9B",
   "9C", "9D", "9E", "9F", "A0", "A1", "A2", "A3", "A4", "A5", "A6", "A7",
   "A8", "A9", "AA", "AB", "AC", "AD", "AE", "AF", "B0", "B1", "B2", "B3",
   "B4", "B5", "B6", "B7", "B8", "B9", "BA", "BB", "BC", "BD", "BE", "BF"}
ContA0BF ==
  {"A0", "A1", "A2", "A3", "A4", "A5", "A6", "A7", "A8", "A9", "AA", "AB",
   "AC", "AD", "AE", "AF", "B0", "B1", "B2", "B3", "B4", "B5", "B6", "B7",
   "B8", "B9", "BA", "BB", "BC", "BD", "BE", "BF"}
Lead2 ==
  {"C2", "C3", "C4", "C5", "C6", "C7", "C8", "C9", "CA", "CB", "CC", "CD",
   "CE", "CF", "D0", "D1", "D2", "D3", "D4", "D5", "D6", "D7", "D8", "D9",
   "DA", "DB", "DC", "DD", "DE", "DF"}
Lead3 ==
  {"E0", "E1", "E2", "E3", "E4", "E5", "E6", "E7", "E8", "E9", "EA", "EB",
   "EC", "ED", "EE", "EF"}
Lead4 ==
  {"F0", "F1", "F2", "F3", "F4"}
HighBytes ==
  {"80", "81", "82", "83", "84", "85", "86", "87", "88", "89", "8A", "8B",
   "8C", "8D", "8E", "8F", "90", "91", "92", "93", "94", "95", "96", "97",
   "98", "99", "9A", "9B", "9C", "9D", "9E", "9F", "A0", "A1", "A2", "A3",
   "A4", "A5", "A6", "A7", "A8", "A9", "AA", "AB", "AC", "AD", "AE", "AF",
   "B0", "B1", "B2", "B3", "B4", "B5", "B6", "B7", "B8", "B9", "BA", "BB",
   "BC", "BD", "BE", "BF", "C0", "C1", "C2", "C3", "C4", "C5", "C6", "C7",
   "C8", "C9", "CA", "CB", "CC", "CD", "CE", "CF", "D0", "D1", "D2", "D3",
   "D4", "D5", "D6", "D7", "D8", "D9", "DA", "DB", "DC", "DD", "DE", "DF",
   "E0", "E1", "E2", "E3", "E4", "E5", "E6", "E7", "E8", "E9", "EA", "EB",
   "EC", "ED", "EE", "EF", "F0", "F1", "F2", "F3", "F4", "F5", "F6", "F7",
   "F8", "F9", "FA", "FB", "FC", "FD", "FE", "FF"}

Min(a, b) == IF a < b THEN a ELSE b

Seqs(S, n) == UNION {[1..m -> S] : m \in 0..n}

\* s[a:b] for 0 <= a, 0 <= b
PySlice(s, a, b) == SubSeq(s, a + 1, Min(b, Len(s)))

\* the loop run n // step + 1 times, as the printed total_chunks has it
RangeTotalChunks(n, step) == [j \in 1..(n \div step + 1) |-> (j - 1) * step]

\* range(0, n, step) as a sequence
Range(n, step) == [j \in 1..((n + step - 1) \div step) |-> (j - 1) * step]

MatchAt(s, pat, p) ==
  /\ p >= 1
  /\ p + Len(pat) - 1 <= Len(s)
  /\ SubSeq(s, p, p + Len(pat) - 1) = pat

\* 1-based position of the first occurrence of pat at or after from, 0 if none
Find(s, pat, from) ==
  LET hits == {p \in from..Len(s) : MatchAt(s, pat, p)}
  IN IF hits = {} THEN 0 ELSE CHOOSE p \in hits : \A q \in hits : p <= q

Contains(s, pat) == Find(s, pat, 1) # 0

StartsWith(s, pat) == MatchAt(s, pat, 1)

\* str.lstrip(chars) / str.rstrip(chars)
LStrip(s, chars) ==
  LET keep == {p \in 1..Len(s) : s[p] \notin chars}
  IN IF keep = {} THEN <<>>
     ELSE SubSeq(s, CHOOSE p \in keep : \A q \in keep : p <= q, Len(s))

RStrip(s, chars) ==
  LET keep == {p \in 1..Len(s) : s[p] \notin chars}
  IN IF keep = {} THEN <<>>
     ELSE SubSeq(s, 1, CHOOSE p \in keep : \A q \in keep : p >= q)

Strip(s) == RStrip(LStrip(s, Whitespace), Whitespace)

\* str.split(sep)
RECURSIVE Split(_, _)
Split(s, sep) ==
  LET p == Find(s, sep, 1)
  IN IF p = 0 THEN <<s>>
     ELSE <<SubSeq(s, 1, p - 1)>> \o Split(SubSeq(s, p + Len(sep), Len(s)), sep)

\* every part followed by the separator, the last one too
RECURSIVE JoinTrailing(_, _)
JoinTrailing(parts, sep) ==
  IF Len(parts) = 0 THEN <<>>
  ELSE parts[1] \o sep \o JoinTrailing(Tail(parts), sep)

\* sep.join(parts)
RECURSIVE Join(_, _)
Join(parts, sep) ==
  IF Len(parts) = 0 THEN <<>>
  ELSE IF Len(parts) = 1 THEN parts[1]
  ELSE parts[1] \o sep \o Join(Tail(parts), sep)

Ok(v) == [ok |-> TRUE, val |-> v]
Raised == [ok |-> FALSE, val |-> <<>>]

\* the second byte a lead byte admits
Second(lead) ==
  CASE lead = "E0" -> ContA0BF
    [] lead = "ED" -> Cont809F
    [] lead = "F0" -> Cont90BF
    [] lead = "F4" -> Cont808F
    [] OTHER -> Cont80BF

\* number of bytes of the well-formed UTF-8 character b starts with, 0 if
\* it starts with none
CharLen(b) ==
  LET n == IF b[1] \notin HighBytes THEN 1
           ELSE IF b[1] \in Lead2 THEN 2
           ELSE IF b[1] \in Lead3 THEN 3
           ELSE IF b[1] \in Lead4 THEN 4
           ELSE 0
  IN IF n = 0 \/ n > Len(b) THEN 0
     ELSE IF n = 1 THEN 1
     ELSE IF /\ b[2] \in Second(b[1])
             /\ \A j \in 3..n : b[j] \in Cont80BF
          THEN n
          ELSE 0

\* bytes.decode('utf-8'), strict: the text, or UnicodeDecodeError
RECURSIVE Utf8Decode(_)
Utf8Decode(b) ==
  IF Len(b) = 0 THEN Ok(<<>>)
  ELSE LET n == CharLen(b)
       IN IF n = 0 THEN Raised
          ELSE LET rest == Utf8Decode(SubSeq(b, n + 1, Len(b)))
               IN IF rest.ok THEN Ok(<<SubSeq(b, 1, n)>> \o rest.val)
                  ELSE Raised

\* str.encode('utf-8'): the bytes of the characters, in order
RECURSIVE Utf8Encode(_)
Utf8Encode(s) ==
  IF Len(s) = 0 THEN <<>> ELSE s[1] \o Utf8Encode(Tail(s))

\* universal newlines on input: "\r\n" and "\r" become "\n"
RECURSIVE Newlines(_)
Newlines(s) ==
  IF Len(s) = 0 THEN <<>>
  ELSE IF s[1] = CR
       THEN IF Len(s) >= 2 /\ s[2] = NL
            THEN <<NL>> \o Newlines(SubSeq(s, 3, Len(s)))
            ELSE <<NL>> \o Newlines(Tail(s))
       ELSE <<s[1]>> \o Newlines(Tail(s))

\* text-mode read of a whole file (encoding utf-8, newline=None): the text,
\* or the decoder raises
ReadText(bytes) ==
  LET d == Utf8Decode(bytes)
  IN IF d.ok THEN Ok(Newlines(d.val)) ELSE Raised

\* text-mode write on POSIX: "\n" is written as os.linesep = "\n", the text
\* is encoded as UTF-8
WriteText(s) == Utf8Encode(s)

----------------------------------------------------------------------------
(* Pure functions of the two programs *)

\* debloater.py count_loc(code)
count_loc(code) ==
  LET lines == Split(code, <<NL>>)
  IN Cardinality({j \in 1..Len(lines) :
        /\ Strip(lines[j]) # <<>>
        /\ ~ StartsWith(Strip(lines[j]), Str(<<"#">>))
        /\ ~ StartsWith(Strip(lines[j]), Str(<<"/", "/">>))})

\* what debloater_api.py count_loc returns when it caught an exception
None == -1

\* debloater_api.py count_loc(file_path) on a file it can open:
\* len(file.readlines()), or None when the decoder raises
count_loc_api(bytes) ==
  LET r == ReadText(bytes)
      text == r.val
      ends == Cardinality({p \in 1..Len(text) : text[p] = NL})
  IN IF ~ r.ok THEN None
     ELSE IF Len(text) > 0 /\ text[Len(text)] # NL THEN ends + 1 ELSE ends

\* every value count_loc(file_path) can return: the count, or None when
\* opening or reading the file raised
CountLocApi(bytes) == {count_loc_api(bytes), None}

\* debloater.py process_chunk, lines 64-67: the value returned for a reply
process_chunk(result) ==
  IF Contains(result, FENCE)
  THEN Ok(LStrip(Strip(Split(result, FENCE)[2]), LstripChars))
  ELSE Ok(result)

\* debloater_api.py extract_code: re.search with the pattern
\* FENCE python (.*?) FENCE under DOTALL: leftmost match, shortest body
extract_code(response_content) ==
  LET p == Find(response_content, FENCE \o PYTHON, 1)
      q == IF p = 0 THEN 0 ELSE Find(response_content, FENCE, p + 9)
  IN IF p = 0 \/ q = 0 THEN Raised
     ELSE Ok(Strip(SubSeq(response_content, p + 9, q - 1)))

----------------------------------------------------------------------------
(* The environment: files a run may find and replies a backend may give *)

FileBytes == {"x", "\n", "\r", "C2", "A0"}
FileContents == Seqs(FileBytes, MaxLen)
Windows == 2..MaxWindow

ReplyPython == FENCE \o PYTHON \o <<NL, Ch("x")>> \o FENCE
ReplyEmpty == FENCE \o PYTHON \o <<NL>> \o FENCE
ReplyRaw == <<NBSP>>
Responses == {ReplyPython, ReplyEmpty, ReplyRaw}

NoFile == [exists |-> FALSE, data |-> <<>>]
File(d) == [exists |-> TRUE, data |-> d]
NoReduction == [num |-> 0, den |-> 0]

----------------------------------------------------------------------------
(* State after construction: nothing has run yet *)

RunLocals ==
  /\ pc = "idle"
  /\ original_code = <<>>
  /\ original_loc = 0
  /\ k = 0
  /\ sent = <<>>
  /\ replies = <<>>
  /\ processed_chunks = <<>>
  /\ new_code = <<>>
  /\ new_loc = 0
  /\ reduction = NoReduction
  /\ exit_code = -1
  /\ fail_stage = "none"
  /\ wrote = FALSE

Init ==
  /\ prog \in {"local", "api"}
  /\ fs_target \in FileContents
  /\ fs_bak = NoFile
  /\ chunk_size \in IF prog = "local" THEN Windows ELSE {2}
  /\ RunLocals
  /\ pre = fs_target
  /\ bak0 = fs_bak
  /\ runs = 1
  /\ arg = <<>>
  /\ res = <<>>

----------------------------------------------------------------------------
(* Steps of main / process_file *)

\* an exception reaches the except clause of main: message, sys.exit(1)
Raise(stage) ==
  /\ pc' = "failed"
  /\ fail_stage' = stage
  /\ exit_code' = 1

\* the offsets of the for loop
Offsets == Range(Len(original_code), chunk_size \div 2)

\* open(file_path) and f.read(), then the original line count
OpenRead ==
  /\ pc = "idle"
  /\ ReadText(fs_target).ok
  /\ original_code' = ReadText(fs_target).val
  /\ original_loc' \in IF prog = "local" THEN {count_loc(original_code')}
                       ELSE CountLocApi(fs_target)
  /\ pc' = IF prog = "local" THEN "load" ELSE "call"
  /\ UNCHANGED <<prog, fs_target, fs_bak, chunk_size, k, sent, replies,
                 processed_chunks, new_code, new_loc, reduction, exit_code,
                 fail_stage, pre, bak0, wrote, runs, arg, res>>

\* open(file_path), f.read() (the decoder included) or the close of the
\* handle that was only read raises
OpenFail ==
  /\ pc = "idle"
  /\ Raise("open")
  /\ UNCHANGED <<prog, fs_target, fs_bak, chunk_size, original_code,
                 original_loc, k, sent, replies, processed_chunks, new_code,
                 new_loc, reduction, pre, bak0, wrote, runs, arg, res>>

\* load_model() returns; the loop starts
LoadModel ==
  /\ pc = "load"
  /\ pc' = "loop"
  /\ k' = 1
  /\ UNCHANGED <<prog, fs_target, fs_bak, chunk_size, original_code,
                 original_loc, sent, replies, processed_chunks, new_code,
                 new_loc, reduction, exit_code, fail_stage, pre, bak0, wrote,
                 runs, arg, res>>

\* load_model() raises
LoadModelFail ==
  /\ pc = "load"
  /\ Raise("model")
  /\ UNCHANGED <<prog, fs_target, fs_bak, chunk_size, original_code,
                 original_loc, k, sent, replies, processed_chunks, new_code,
                 new_loc, reduction, pre, bak0, wrote, runs, arg, res>>

\* one iteration of the for loop whose backend call returns
ProcessChunk ==
  /\ pc = "loop"
  /\ k <= Len(Offsets)
  /\ \E r \in Responses :
       LET i == Offsets[k]
           chunk == PySlice(original_code, i, i + chunk_size)
       IN /\ sent' = Append(sent, [offset |-> i, text |-> chunk])
          /\ replies' = Append(replies, r)
          /\ processed_chunks' = Append(processed_chunks, process_chunk(r).val)
  /\ k' = k + 1
  /\ UNCHANGED <<prog, pc, fs_target, fs_bak, chunk_size, original_code,
                 original_loc, new_code, new_loc, reduction, exit_code,
                 fail_stage, pre, bak0, wrote, runs, arg, res>>

\* the exception of the backend call is swallowed and the loop goes on
BackendFailSwallowed ==
  /\ pc = "loop"
  /\ k <= Len(Offsets)
  /\ LET i == Offsets[k]
         chunk == PySlice(original_code, i, i + chunk_size)
     IN sent' = Append(sent, [offset |-> i, text |-> chunk])
  /\ fail_stage' = "backend"
  /\ k' = k + 1
  /\ UNCHANGED <<prog, pc, fs_target, fs_bak, chunk_size, original_code,
                 original_loc, replies, processed_chunks, new_code,
                 new_loc, reduction, exit_code, pre, bak0, wrote, runs, arg,
                 res>>

\* one iteration of the for loop whose backend call raises
BackendFailLocal ==
  /\ pc = "loop"
  /\ k <= Len(Offsets)
  /\ LET i == Offsets[k]
         chunk == PySlice(original_code, i, i + chunk_size)
     IN sent' = Append(sent, [offset |-> i, text |-> chunk])
  /\ Raise("backend")
  /\ UNCHANGED <<prog, fs_target, fs_bak, chunk_size, original_code,
                 original_loc, k, replies, processed_chunks, new_code,
                 new_loc, reduction, pre, bak0, wrote, runs, arg, res>>

\* the loop is exhausted: join the processed chunks, count the new lines
JoinChunks ==
  /\ pc = "loop"
  /\ k > Len(Offsets)
  /\ new_code' = Join(processed_chunks, <<NL>>)
  /\ new_loc' = count_loc(new_code')
  /\ pc' = "backup"
  /\ UNCHANGED <<prog, fs_target, fs_bak, chunk_size, original_code,
                 original_loc, k, sent, replies, processed_chunks, reduction,
                 exit_code, fail_stage, pre, bak0, wrote, runs, arg, res>>

\* the single request of the remote program returns
CallBackend ==
  /\ pc = "call"
  /\ \E r \in Responses : replies' = <<r>>
  /\ sent' = <<[offset |-> 0, text |-> original_code]>>
  /\ pc' = "extract"
  /\ UNCHANGED <<prog, fs_target, fs_bak, chunk_size, original_code,
                 original_loc, k, processed_chunks, new_code, new_loc,
                 reduction, exit_code, fail_stage, pre, bak0, wrote, runs,
                 arg, res>>

\* the single request of the remote program raises
BackendFailApi ==
  /\ pc = "call"
  /\ sent' = <<[offset |-> 0, text |-> original_code]>>
  /\ Raise("backend")
  /\ UNCHANGED <<prog, fs_target, fs_bak, chunk_size, original_code,
                 original_loc, k, replies, processed_chunks, new_code,
                 new_loc, reduction, pre, bak0, wrote, runs, arg, res>>

\* debloated_code = extract_code(response)
ExtractApi ==
  /\ pc = "extract"
  /\ LET e == extract_code(replies[1])
     IN IF e.ok
        THEN /\ new_code' = e.val
             /\ processed_chunks' = <<e.val>>
             /\ pc' = "backup"
             /\ UNCHANGED <<exit_code, fail_stage>>
        ELSE /\ Raise("extract")
             /\ UNCHANGED <<new_code, processed_chunks>>
  /\ UNCHANGED <<prog, fs_target, fs_bak, chunk_size, original_code,
                 original_loc, k, sent, replies, new_loc, reduction, pre,
                 bak0, wrote, runs, arg, res>>

\* the backup step left out
BackupSkipped ==
  /\ pc = "backup"
  /\ pc' = "write"
  /\ UNCHANGED <<prog, fs_target, fs_bak, chunk_size, original_code,
                 original_loc, k, sent, replies, processed_chunks, new_code,
                 new_loc, reduction, exit_code, fail_stage, pre, bak0, wrote,
                 runs, arg, res>>

\* the backup is opened for writing and the original text written to it
Backup ==
  /\ pc = "backup"
  /\ fs_bak' = File(WriteText(original_code))
  /\ pc' = "write"
  /\ UNCHANGED <<prog, fs_target, chunk_size, original_code, original_loc, k,
                 sent, replies, processed_chunks, new_code, new_loc,
                 reduction, exit_code, fail_stage, pre, bak0, wrote, runs,
                 arg, res>>

\* open(backup_path, 'w') raises: nothing on disk changes
BackupOpenFail ==
  /\ pc = "backup"
  /\ Raise("backup")
  /\ UNCHANGED <<prog, fs_target, fs_bak, chunk_size, original_code,
                 original_loc, k, sent, replies, processed_chunks, new_code,
                 new_loc, reduction, pre, bak0, wrote, runs, arg, res>>

\* the failed backup write is ignored and the run goes on to the target
BackupWriteFailIgnored ==
  /\ pc = "backup"
  /\ \E n \in 0..Len(WriteText(original_code)) :
       fs_bak' = File(SubSeq(WriteText(original_code), 1, n))
  /\ fail_stage' = "backup"
  /\ pc' = "write"
  /\ UNCHANGED <<prog, fs_target, chunk_size, original_code, original_loc, k,
                 sent, replies, processed_chunks, new_code, new_loc,
                 reduction, exit_code, pre, bak0, wrote, runs, arg, res>>

\* the backup was opened (created or truncated) and its write or its close
\* raises after some prefix of the bytes of the text reached the disk
BackupWriteFail ==
  /\ pc = "backup"
  /\ \E n \in 0..Len(WriteText(original_code)) :
       fs_bak' = File(SubSeq(WriteText(original_code), 1, n))
  /\ Raise("backup")
  /\ UNCHANGED <<prog, fs_target, chunk_size, original_code, original_loc, k,
                 sent, replies, processed_chunks, new_code, new_loc,
                 reduction, pre, bak0, wrote, runs, arg, res>>

\* bytes written at position 0 of a file opened without truncation
Overlay(old, new) == new \o SubSeq(old, Len(new) + 1, Len(old))

\* debloater.py: f.seek(0); f.write(new_code) reaches the disk
WriteLocal ==
  /\ pc = "write"
  /\ prog = "local"
  /\ fs_target' = Overlay(fs_target, WriteText(new_code))
  /\ wrote' = TRUE
  /\ pc' = "truncate"
  /\ UNCHANGED <<prog, fs_bak, chunk_size, original_code, original_loc, k,
                 sent, replies, processed_chunks, new_code, new_loc,
                 reduction, exit_code, fail_stage, pre, bak0, runs, arg, res>>

\* debloater.py: f.truncate() at the position after the write
TruncateLocal ==
  /\ pc = "truncate"
  /\ fs_target' = SubSeq(fs_target, 1, Len(WriteText(new_code)))
  /\ pc' = "metrics"
  /\ UNCHANGED <<prog, fs_bak, chunk_size, original_code, original_loc, k,
                 sent, replies, processed_chunks, new_code, new_loc,
                 reduction, exit_code, fail_stage, pre, bak0, wrote, runs,
                 arg, res>>

\* debloater_api.py: open(file_path, 'w') truncates the target
OpenTargetApi ==
  /\ pc = "write"
  /\ prog = "api"
  /\ fs_target' = <<>>
  /\ wrote' = TRUE
  /\ pc' = "writing"
  /\ UNCHANGED <<prog, fs_bak, chunk_size, original_code, original_loc, k,
                 sent, replies, processed_chunks, new_code, new_loc,
                 reduction, exit_code, fail_stage, pre, bak0, runs, arg, res>>

\* debloater_api.py: f.write(debloated_code)
WriteApi ==
  /\ pc = "writing"
  /\ fs_target' = WriteText(new_code)
  /\ pc' = "metrics"
  /\ UNCHANGED <<prog, fs_bak, chunk_size, original_code, original_loc, k,
                 sent, replies, processed_chunks, new_code, new_loc,
                 reduction, exit_code, fail_stage, pre, bak0, wrote, runs,
                 arg, res>>

\* a write to the target raises.  Where the text is being written (f.write
\* flushed by f.truncate in debloater.py; f.write and the close that flushes
\* it in debloater_api.py) some prefix of its bytes may have reached the
\* disk; where the target is being opened, truncated or (debloater.py, at
\* the end of the with block) closed, the disk stays as it is
TargetFail ==
  /\ \/ pc \in {"write", "truncate", "writing"}
     \/ pc = "metrics" /\ prog = "local"
  /\ LET bytes == WriteText(new_code)
         last == IF pc = "writing" THEN Len(bytes)
                 ELSE IF pc = "write" /\ prog = "local" /\ Len(bytes) > 0
                 THEN Len(bytes) - 1
                 ELSE 0
     IN \E n \in 0..last :
          /\ fs_target' = IF pc = "writing" THEN SubSeq(bytes, 1, n)
                          ELSE Overlay(fs_target, SubSeq(bytes, 1, n))
          /\ wrote' = (wrote \/ n > 0)
  /\ Raise("target")
  /\ UNCHANGED <<prog, fs_bak, chunk_size, original_code, original_loc, k,
                 sent, replies, processed_chunks, new_code, new_loc,
                 reduction, pre, bak0, runs, arg, res>>

\* ((original_loc - new_loc)/original_loc)*100 as an exact rational
Reduction(o, n) == [num |-> (o - n) * 100, den |-> o]

\* the returned dict is built and main prints the report; the subtraction
\* raises TypeError on a None count, the division ZeroDivisionError on 0
Metrics ==
  /\ pc = "metrics"
  /\ new_loc' \in IF prog = "local" THEN {new_loc}
                  ELSE CountLocApi(fs_target)
  /\ IF original_loc = None \/ new_loc' = None \/ original_loc = 0
     THEN /\ Raise("metrics")
          /\ UNCHANGED reduction
     ELSE /\ reduction' = Reduction(original_loc, new_loc')
          /\ pc' = "done"
          /\ exit_code' = 0
          /\ UNCHANGED fail_stage
  /\ UNCHANGED <<prog, fs_target, fs_bak, chunk_size, original_code,
                 original_loc, k, sent, replies, processed_chunks, new_code,
                 pre, bak0, wrote, runs, arg, res>>

\* a fresh process: every local of the run is back at its initial value
ResetLocals ==
  /\ pc' = "idle"
  /\ original_code' = <<>>
  /\ original_loc' = 0
  /\ k' = 0
  /\ sent' = <<>>
  /\ replies' = <<>>
  /\ processed_chunks' = <<>>
  /\ new_code' = <<>>
  /\ new_loc' = 0
  /\ reduction' = NoReduction
  /\ exit_code' = -1
  /\ fail_stage' = "none"
  /\ wrote' = FALSE

\* the program is started again on the same path
NextRun ==
  /\ pc \in {"done", "failed"}
  /\ runs < MaxRuns
  /\ Len(fs_target) <= MaxRerunLen
  /\ ResetLocals
  /\ pre' = fs_target
  /\ bak0' = fs_bak
  /\ runs' = runs + 1
  /\ UNCHANGED <<prog, fs_target, fs_bak, chunk_size, arg, res>>

Next ==
  \/ OpenRead
  \/ OpenFail
  \/ LoadModel
  \/ LoadModelFail
  \/ ProcessChunk
  \/ BackendFailLocal
  \/ JoinChunks
  \/ CallBackend
  \/ BackendFailApi
  \/ ExtractApi
  \/ Backup
  \/ BackupOpenFail
  \/ BackupWriteFail
  \/ WriteLocal
  \/ TruncateLocal
  \/ OpenTargetApi
  \/ WriteApi
  \/ TargetFail
  \/ Metrics
  \/ NextRun

Spec == Init /\ [][Next]_vars

----------------------------------------------------------------------------
(* The extractors on their own: one reply in, both programs' results out *)

CodeChars == {Ch("x"), Ch("p"), Ch(" "), NL, Ch("VT"), NBSP}
Prefixes == {<<>>, <<Ch("x"), NL>>}
Tags == {<<>>, PYTHON}
Codes == Seqs(CodeChars, MaxCode)
Suffixes == {<<>>, <<NL, Ch("x")>>, FENCE \o <<Ch("x")>> \o FENCE}

\* a reply put together from its pieces
Assemble(a) ==
  a.prefix \o (IF a.open THEN FENCE \o a.tag ELSE <<>>) \o a.code
           \o (IF a.close THEN FENCE \o a.suffix ELSE <<>>)

ExtractInputs ==
  [prefix : Prefixes, open : BOOLEAN, tag : Tags, code : Codes,
   close : BOOLEAN, suffix : Suffixes]

NoExtract == [done |-> FALSE, local |-> Raised, api |-> Raised]
NoCount == [done |-> FALSE, local |-> 0, api |-> 0]

Idle ==
  /\ prog = "local"
  /\ fs_target = <<>>
  /\ fs_bak = NoFile
  /\ chunk_size = 2
  /\ RunLocals
  /\ pre = <<>>
  /\ bak0 = NoFile
  /\ runs = 1

InitExtract ==
  /\ Idle
  /\ arg \in ExtractInputs
  /\ res = NoExtract

\* process_chunk (lines 64-67) and extract_code applied to the reply
Extract ==
  /\ ~ res.done
  /\ res' = [done |-> TRUE,
             local |-> process_chunk(Assemble(arg)),
             api |-> extract_code(Assemble(arg))]
  /\ UNCHANGED <<prog, pc, fs_target, fs_bak, chunk_size, original_code,
                 original_loc, k, sent, replies, processed_chunks, new_code,
                 new_loc, reduction, exit_code, fail_stage, pre, bak0, wrote,
                 runs, arg>>

SpecExtract == InitExtract /\ [][Extract]_vars

----------------------------------------------------------------------------
(* The line counters on their own *)

LocChars == {Ch("x"), Ch(" "), NL, Ch("#"), Ch("/"), Ch("VT"), NBSP}
LocInputs == Seqs(LocChars, MaxLocLen)

InitLoc ==
  /\ Idle
  /\ arg \in LocInputs
  /\ res = NoCount

\* count_loc of debloater.py applied to a text, count_loc of
\* debloater_api.py to the file that holds it
CountLines ==
  /\ ~ res.done
  /\ res' = [done |-> TRUE,
             local |-> count_loc(arg),
             api |-> count_loc_api(WriteText(arg))]
  /\ UNCHANGED <<prog, pc, fs_target, fs_bak, chunk_size, original_code,
                 original_loc, k, sent, replies, processed_chunks, new_code,
                 new_loc, reduction, exit_code, fail_stage, pre, bak0, wrote,
                 runs, arg>>

SpecLoc == InitLoc /\ [][CountLines]_vars

----------------------------------------------------------------------------
(* Properties *)

Stride == chunk_size \div 2

\* the loop of debloater.py has run to its end
LoopDone ==
  /\ prog = "local"
  /\ \/ pc \in {"backup", "write", "truncate", "metrics", "done"}
     \/ pc = "failed" /\ fail_stage \in {"backup", "target", "metrics"}

\* the offsets the chunk protocol plans for a text of n characters
PlannedOffsets(n, stride) == {o \in 0..(n - 1) : o % stride = 0}

\* C1: whenever the target differs from what it held when the run started,
\* the backup exists and holds the text read at the start of the run
BackupBeforeWrite ==
  fs_target # pre =>
    fs_bak.exists /\ fs_bak.data = WriteText(original_code)

BackupBeforeWriteWitness ==
  /\ wrote
  /\ fs_target # pre
  /\ fs_bak = File(WriteText(original_code))
  /\ Len(original_code) > 0

\* C2: a backend or extraction failure aborts the run at once: the target
\* and the backup are as the run found them, the failing request is the
\* last one sent, and the exit code is 1
AbortOnChunkFailure ==
  fail_stage \in {"backend", "extract"} =>
    /\ pc = "failed"
    /\ exit_code = 1
    /\ fs_target = pre
    /\ fs_bak = bak0
    /\ ~ wrote
    /\ Len(sent) = Len(replies) + (IF fail_stage = "backend" THEN 1 ELSE 0)
    /\ prog = "local" => Len(sent) = k

\* scenario C: the backend raises on chunk 2 of 3
AbortOnChunkFailureWitness ==
  /\ prog = "local"
  /\ fail_stage = "backend"
  /\ Len(Offsets) = 3
  /\ Len(sent) = 2
  /\ Len(replies) = 1
  /\ ~ fs_bak.exists
  /\ fs_target = pre
  /\ exit_code = 1

\* C3: when opening or writing the backup fails the run aborts and the
\* target still holds exactly what it held before the run
BackupFailureLeavesTarget ==
  fail_stage = "backup" =>
    /\ pc = "failed"
    /\ exit_code = 1
    /\ fs_target = pre
    /\ ~ wrote

BackupFailureLeavesTargetWitness ==
  /\ fail_stage = "backup"
  /\ pc = "failed"
  /\ fs_bak # bak0
  /\ Len(pre) > 0
  /\ fs_target = pre

\* the reply holds a complete fenced block: two fence markers
HasFencedBlock(text) == Len(Split(text, FENCE)) >= 3

\* C4: extraction fails for every reply without a complete fenced block
ExtractionFailsWithoutBlock ==
  (res.done /\ ~ HasFencedBlock(Assemble(arg))) =>
    (~ res.local.ok /\ ~ res.api.ok)

\* prefix FENCE [tag] CODE FENCE suffix; a tag is delimited from CODE by
\* whitespace
WellFormed(a) ==
  /\ a.open
  /\ a.close
  /\ a.tag # <<>> => (a.code = <<>> \/ a.code[1] \in Whitespace)

\* C5: for a well-formed reply extraction returns CODE, trimmed
ExtractionReturnsCode ==
  (res.done /\ WellFormed(arg)) =>
    (res.local = Ok(Strip(arg.code)) /\ res.api = Ok(Strip(arg.code)))

\* scenario B: 9000 characters under the window of 4096
ScenarioB ==
  LET offs == Range(9000, CHUNK_SIZE \div 2)
  IN /\ offs = <<0, 2048, 4096, 6144, 8192>>
     /\ Len(PySlice([j \in 1..9000 |-> "x"], offs[5], offs[5] + CHUNK_SIZE))
          = 9000 - 8192

\* C6: the loop emits one chunk per offset 0, stride, 2*stride, ... below
\* len(T), chunk i being T[i*stride : min(i*stride + w, len(T))], and the
\* spans of the chunks cover [0, len(T))
ChunkCoverage ==
  /\ ScenarioB
  /\ (prog = "local" /\ pc # "idle") =>
       \A j \in 1..Len(sent) :
         /\ sent[j].offset = (j - 1) * Stride
         /\ sent[j].offset < Len(original_code)
         /\ sent[j].text =
              [m \in 1..(Min(sent[j].offset + chunk_size, Len(original_code))
                           - sent[j].offset)
                 |-> original_code[sent[j].offset + m]]
  /\ LoopDone =>
       /\ Len(sent) = Cardinality(PlannedOffsets(Len(original_code), Stride))
       /\ UNION {(sent[j].offset)..(sent[j].offset + Len(sent[j].text) - 1) :
                   j \in 1..Len(sent)}
            = 0..(Len(original_code) - 1)

\* a last chunk clipped to the end of the text, after an unclipped one
ChunkCoverageWitness ==
  /\ LoopDone
  /\ Len(sent) >= 2
  /\ Len(sent[1].text) = chunk_size
  /\ Len(sent[Len(sent)].text) < chunk_size
  /\ Len(original_code) % Stride = 0

\* C7: a run on a file without significant lines ends without a fault and
\* reports a reduction of 0
ZeroLocReportsZero ==
  (original_loc = 0 /\ new_loc # None /\ wrote /\ pc \in {"done", "failed"}
     /\ fail_stage # "target") =>
    (pc = "done" /\ exit_code = 0 /\ reduction.num = 0)

\* C8: once a run has written to the target the backup is an exact copy of
\* what the target held when that run started, and a run that aborts before
\* its backup step leaves the backup as it found it
BackupIsExactCopy ==
  /\ wrote => fs_bak = File(pre)
  /\ fail_stage \in {"open", "model", "backend", "extract"} => fs_bak = bak0

\* the lines of a text that are significant, by position: the line holds a
\* character that is not whitespace, and the first such character does not
\* open a comment
LineStarts(text) == {1} \cup {p + 1 : p \in {q \in 1..Len(text) : text[q] = NL}}
LineEnd(text, st) ==
  LET nls == {q \in st..Len(text) : text[q] = NL}
  IN IF nls = {} THEN Len(text)
     ELSE (CHOOSE q \in nls : \A r \in nls : q <= r) - 1
Significant(text, st) ==
  LET ink == {q \in st..LineEnd(text, st) : text[q] \notin Whitespace}
  IN /\ ink # {}
     /\ LET f == CHOOSE q \in ink : \A r \in ink : q <= r
        IN /\ text[f] # Ch("#")
           /\ ~ (/\ text[f] = Ch("/")
                 /\ f + 1 <= LineEnd(text, st)
                 /\ text[f + 1] = Ch("/"))
SignificantLines(text) ==
  Cardinality({st \in LineStarts(text) : Significant(text, st)})

\* C9: the line count of both programs is the number of significant lines
CountsSignificantLines ==
  res.done =>
    /\ res.local = SignificantLines(arg)
    /\ res.api = SignificantLines(arg)

\* the line counter of debloater.py alone
LocalCountsSignificantLines ==
  /\ count_loc(<<>>) = 0
  /\ count_loc(Str(<<" ", " ", " ", "#", " ", "n">>)) = 0
  /\ count_loc(Str(<<"x", "\n", "x">>)) = 2
  /\ res.done => res.local = SignificantLines(arg)

\* start of processed chunk j inside the joined text (0-based)
RECURSIVE JoinedStart(_, _)
JoinedStart(parts, j) ==
  IF j = 1 THEN 0 ELSE JoinedStart(parts, j - 1) + Len(parts[j - 1]) + 1

\* C10: when every chunk succeeds the backend is called once per planned
\* chunk in increasing offset order, there is one processed chunk per chunk,
\* and the new text is the processed chunks in that order, one line break
\* between neighbours (lengths in every state after the loop, contents when
\* the text has just been joined and when the run is done)
OneReplyPerChunkInOrder ==
  LET n == Len(sent)
  IN /\ LoopDone =>
          /\ n = Cardinality(PlannedOffsets(Len(original_code), Stride))
          /\ \A j \in 1..(n - 1) : sent[j].offset < sent[j + 1].offset
          /\ Len(replies) = n
          /\ Len(processed_chunks) = n
          /\ Len(new_code) =
               IF n = 0 THEN 0
               ELSE JoinedStart(processed_chunks, n) + Len(processed_chunks[n])
     /\ (LoopDone /\ pc \in {"backup", "done"}) =>
          \A j \in 1..n :
            /\ processed_chunks[j] = process_chunk(replies[j]).val
            /\ SubSeq(new_code, JoinedStart(processed_chunks, j) + 1,
                      JoinedStart(processed_chunks, j)
                        + Len(processed_chunks[j]))
                 = processed_chunks[j]
            /\ j > 1 => new_code[JoinedStart(processed_chunks, j)] = NL

OneReplyPerChunkInOrderWitness ==
  /\ LoopDone
  /\ pc = "done"
  /\ Len(sent) = 3
  /\ processed_chunks = <<Str(<<"x">>), <<>>, Str(<<"x">>)>>
  /\ new_code = Str(<<"x", "\n", "\n", "x">>)

====
